---------------------------- MODULE Spec2Model ----------------------------
(***************************************************************************)
(* Model of plotter/main.py: the log plotter that reads every *.log file   *)
(* of the working directory line by line, keeps the records that carry a   *)
(* latency, aggregates them per object count, fits a line and renders the  *)
(* chart.                                                                   *)
(*                                                                         *)
(* Numbers.  A Python float is an IEEE-754 binary64; it is held here as    *)
(* its 53-bit significand and its exponent (value = significand * 2^exp),  *)
(* and the true division and the multiplication are computed exactly and   *)
(* rounded to nearest, ties to even, as the interpreter computes them. The *)
(* aggregation is read in exact arithmetic: a cell of the table is an      *)
(* exact rational combination of the floats that were loaded, so that two  *)
(* cells are equal here only if they are equal as real numbers.            *)
(***************************************************************************)
EXTENDS Integers, Sequences, FiniteSets, TLC

(***************************************************************************)
(* Bounds of the model.                                                    *)
(***************************************************************************)
MaxFiles == 2
MaxLines == 3

(***************************************************************************)
(* Program constants.                                                      *)
(***************************************************************************)
NanosPerMilli == 1000000
BytesPerKilo == 1024
MantissaBits == 53
LimbBits == 10
FracLimbs == 8

(***************************************************************************)
(* Natural numbers of any size, as sequences of limbs of LimbBits bits,    *)
(* most significant limb first and no leading zero limb.  Every            *)
(* intermediate value of the arithmetic stays below 2^31.                  *)
(***************************************************************************)
Pow2 == <<1, 2, 4, 8, 16, 32, 64, 128, 256, 512, 1024, 2048, 4096, 8192,
          16384, 32768, 65536, 131072, 262144, 524288, 1048576, 2097152,
          4194304, 8388608, 16777216, 33554432, 67108864, 134217728,
          268435456, 536870912, 1073741824>>

TwoTo(k) == Pow2[k + 1]

Base == TwoTo(LimbBits)

(* The number of bits of n, 0 <= n < 2^31. *)
BitLen(n) ==
    IF n >= TwoTo(30) THEN 31
    ELSE CHOOSE w \in 0..30 : n < TwoTo(w) /\ (w = 0 \/ n >= TwoTo(w - 1))

Zeros(k) == [i \in 1..k |-> 0]

Front(ls) == SubSeq(ls, 1, Len(ls) - 1)

Last(ls) == ls[Len(ls)]

RECURSIVE Limbs(_)
Limbs(n) == IF n = 0 THEN << >> ELSE Append(Limbs(n \div Base), n % Base)

(* The value of a number below 2^31. *)
RECURSIVE NatOf(_)
NatOf(ls) == IF ls = << >> THEN 0 ELSE NatOf(Front(ls)) * Base + Last(ls)

RECURSIVE Strip(_)
Strip(ls) == IF ls # << >> /\ ls[1] = 0 THEN Strip(Tail(ls)) ELSE ls

(* The number of bits of a number. *)
BitLenL(ls) == IF ls = << >> THEN 0 ELSE LimbBits * (Len(ls) - 1) + BitLen(ls[1])

(* ls div 2^b for 0 <= b < LimbBits. *)
ShiftRight(ls, b) ==
    Strip([i \in 1..Len(ls) |->
              (ls[i] \div TwoTo(b))
              + (IF i > 1 THEN (ls[i - 1] % TwoTo(b)) * TwoTo(LimbBits - b) ELSE 0)])

(* ls * 2^t. *)
ShiftLeft(ls, t) ==
    LET b == t % LimbBits
        padded == <<0>> \o ls
    IN  Strip([i \in 1..Len(padded) |->
                  (padded[i] % TwoTo(LimbBits - b)) * TwoTo(b)
                  + (IF i < Len(padded)
                     THEN padded[i + 1] \div TwoTo(LimbBits - b) ELSE 0)])
        \o Zeros(t \div LimbBits)

(* ls div 2^k, and whether a bit that was dropped was set. *)
DropBits(ls, k) ==
    LET whole == k \div LimbBits
        b     == k % LimbBits
        high  == SubSeq(ls, 1, Len(ls) - whole)
    IN  [q      |-> ShiftRight(high, b),
         sticky |-> \/ \E i \in (Len(ls) - whole + 1)..Len(ls) : ls[i] # 0
                    \/ (high # << >> /\ Last(high) % TwoTo(b) # 0)]

RECURSIVE Inc(_)
Inc(ls) ==
    IF ls = << >> THEN <<1>>
    ELSE IF Last(ls) < Base - 1 THEN Append(Front(ls), Last(ls) + 1)
    ELSE Append(Inc(Front(ls)), 0)

(* ls * k + carry for a factor k < 2^20. *)
RECURSIVE Mul(_, _, _)
Mul(ls, k, carry) ==
    IF ls = << >> THEN Limbs(carry)
    ELSE Append(Mul(Front(ls), k, (Last(ls) * k + carry) \div Base),
                (Last(ls) * k + carry) % Base)

(* The first `count` limbs of the expansion of r / d for r < d < 2^20, and *)
(* the remainder left: [q, r].                                             *)
RECURSIVE DivFrac(_, _, _)
DivFrac(r, d, count) ==
    IF count = 0 THEN [q |-> << >>, r |-> r]
    ELSE LET rest == DivFrac((r * Base) % d, d, count - 1)
         IN  [q |-> <<(r * Base) \div d>> \o rest.q, r |-> rest.r]

(***************************************************************************)
(* binary64.  A float is [man, exp]: man the 53-bit significand, its value *)
(* man * 2^exp; zero has the empty significand.                            *)
(***************************************************************************)
FloatZero == [man |-> << >>, exp |-> 0]

(* A non-zero number times 2^exp, rounded to 53 bits, ties to even; sticky *)
(* says that something non-zero lay below the number.                      *)
RoundNearestEven(ls, exp, sticky) ==
    LET len == BitLenL(ls) IN
    IF len <= MantissaBits
    THEN [man |-> ShiftLeft(ls, MantissaBits - len), exp |-> exp - (MantissaBits - len)]
    ELSE LET drop  == len - MantissaBits
             cut   == DropBits(ls, drop - 1)
             guard == Last(cut.q) % 2
             kept  == ShiftRight(cut.q, 1)
             up    == guard = 1 /\ (sticky \/ cut.sticky \/ Last(kept) % 2 = 1)
             m     == IF up THEN Inc(kept) ELSE kept
         IN  IF BitLenL(m) > MantissaBits
             THEN [man |-> ShiftRight(m, 1), exp |-> exp + drop + 1]
             ELSE [man |-> m, exp |-> exp + drop]

(* float(n) for an int n, 0 <= n < 2^31. *)
FloatOfInt(n) ==
    IF n = 0 THEN FloatZero ELSE RoundNearestEven(Limbs(n), 0, FALSE)

(* Python's int / int for 0 <= n < 2^31, 0 < d < 2^20: the float nearest   *)
(* the quotient.  n >= 1 gives n / d > 2^-20, so FracLimbs limbs after the *)
(* point hold more than 53 significant bits and a guard bit.               *)
TrueDiv(n, d) ==
    IF n = 0 THEN FloatZero
    ELSE LET frac == DivFrac(n % d, d, FracLimbs)
         IN  RoundNearestEven(Strip(Limbs(n \div d) \o frac.q),
                              0 - FracLimbs * LimbBits, frac.r # 0)

(* float * int for an int k, 0 < k < 2^20: the float nearest the product. *)
FloatMul(f, k) ==
    IF f.man = << >> THEN FloatZero
    ELSE RoundNearestEven(Mul(f.man, k, 0), f.exp, FALSE)

(* The integer nearest a float below 2^30 (halves go up). *)
NearestInt(f) ==
    IF f.man = << >> \/ 0 - f.exp > MantissaBits THEN 0
    ELSE IF f.exp >= 0 THEN NatOf(ShiftLeft(f.man, f.exp))
    ELSE LET twice == NatOf(DropBits(f.man, 0 - f.exp - 1).q)
         IN  (twice \div 2) + (twice % 2)

(***************************************************************************)
(* Exact arithmetic for the aggregation.  A rational is <<p, q>> in lowest *)
(* terms, q > 0.  A cell of the table is a finite rational combination of  *)
(* the floats that were loaded: a function from floats to non-zero         *)
(* rationals.  Sums and means of cells are then exact, and two cells that  *)
(* are equal here are equal as real numbers.                               *)
(***************************************************************************)
RECURSIVE Gcd(_, _)
Gcd(a, b) == IF b = 0 THEN a ELSE Gcd(b, a % b)

Rat(p, q) == LET g == Gcd(p, q) IN <<p \div g, q \div g>>

RatAdd(a, b) == Rat(a[1] * b[2] + b[1] * a[2], a[2] * b[2])

RatDiv(a, k) == Rat(a[1], a[2] * k)

CellZero == << >>

Exact(f) == IF f = FloatZero THEN CellZero ELSE [a \in {f} |-> <<1, 1>>]

CellAdd(u, v) ==
    [a \in DOMAIN u \cup DOMAIN v |->
        IF a \in DOMAIN u /\ a \in DOMAIN v THEN RatAdd(u[a], v[a])
        ELSE IF a \in DOMAIN u THEN u[a] ELSE v[a]]

CellDiv(u, k) == [a \in DOMAIN u |-> RatDiv(u[a], k)]

(* CellSum that keeps the last value of the group. *)
CellLast(cells) == IF cells = << >> THEN CellZero ELSE cells[Len(cells)]

RECURSIVE CellSum(_)
CellSum(cells) ==
    IF cells = << >> THEN CellZero
    ELSE CellAdd(CellSum(SubSeq(cells, 1, Len(cells) - 1)), cells[Len(cells)])

(***************************************************************************)
(* Input.  A line of a log file is either text that is not JSON or a JSON  *)
(* object; the object is a record that holds the keys the line has.        *)
(***************************************************************************)
FrameIds == {1, 2}
Garbage == [json |-> FALSE, data |-> [garbage |-> TRUE]]
Object(d) == [json |-> TRUE, data |-> d]

Record(f, c, n, l) ==
    Object([span   |-> [frame_count |-> f, object_count |-> c],
            fields |-> [latency_in_nanos |-> n, msg_len |-> l]])

(* Complete records: (frame_count, object_count, latency_in_nanos, msg_len). *)
KeptLines ==
    { Record(1, 10, 5000000, 2048), Record(2, 10, 15000000, 4096),
      Record(1, 10, 123, 1024),     Record(1, 5, 246, 1536) }

(* Records without latency_in_nanos: one complete otherwise, one that also *)
(* lacks span.                                                             *)
NoLatency == Object([span   |-> [frame_count |-> 2, object_count |-> 5],
                     fields |-> [msg_len |-> 512]])
NoLatencyNoSpan == Object([fields |-> [msg_len |-> 512]])

(* Objects that lack a key the loop reads. *)
NoFields == Object([span |-> [frame_count |-> 1, object_count |-> 5]])
NoSpan == Object([fields |-> [latency_in_nanos |-> 123, msg_len |-> 512]])
NoFrameCount ==
    Object([span |-> [object_count |-> 5],
            fields |-> [latency_in_nanos |-> 123, msg_len |-> 512]])
NoObjectCount ==
    Object([span |-> [frame_count |-> 1],
            fields |-> [latency_in_nanos |-> 123, msg_len |-> 512]])
NoMsgLen ==
    Object([span |-> [frame_count |-> 1, object_count |-> 5],
            fields |-> [latency_in_nanos |-> 123]])

WellFormedLines == KeptLines \cup {NoLatency}
Lines == WellFormedLines \cup
         {Garbage, NoLatencyNoSpan, NoFields, NoSpan, NoFrameCount,
          NoObjectCount, NoMsgLen}

(***************************************************************************)
(* The body of the loading loop (lines 19-25) as a function of the four    *)
(* lists and one line: the lists after the line and the exception raised,  *)
(* if any.  A key that is missing raises KeyError where it is looked up,   *)
(* with the appends before it done.                                        *)
(***************************************************************************)
(* Keeps with the presence test left out. *)
KeepsAll(data) == TRUE

Keeps(data) == "latency_in_nanos" \in DOMAIN data.fields

FrameOf(data) == data.span.frame_count

ToMs(nanos) == TrueDiv(nanos, NanosPerMilli)

(* ToKb with a decimal kilobyte. *)
ToKbDecimal(len) == TrueDiv(len, 1000)

ToKb(len) == TrueDiv(len, BytesPerKilo)

Continue(lists) == [lists |-> lists, error |-> "none"]

(* Raise with the exception swallowed. *)
RaiseSwallowed(lists, exc) == Continue(lists)

Raise(lists, exc) == [lists |-> lists, error |-> exc]

(* JsonError with the malformed line skipped. *)
JsonErrorSkipped(lists) == Continue(lists)

JsonError(lists) == Raise(lists, "JSONDecodeError")

LoopBody(lists, line) ==
    IF ~line.json THEN JsonError(lists)
    ELSE LET data == line.data IN
    IF "fields" \notin DOMAIN data THEN Raise(lists, "KeyError")
    ELSE IF ~Keeps(data) THEN Continue(lists)
    ELSE IF "span" \notin DOMAIN data
            \/ "frame_count" \notin DOMAIN data.span
         THEN Raise(lists, "KeyError")
    ELSE LET l1 == [lists EXCEPT !.frames = Append(@, FrameOf(data))] IN
    IF "object_count" \notin DOMAIN data.span THEN Raise(l1, "KeyError")
    ELSE LET l2 == [l1 EXCEPT !.object_counts = Append(@, data.span.object_count)] IN
    IF "latency_in_nanos" \notin DOMAIN data.fields THEN Raise(l2, "KeyError")
    ELSE LET l3 == [l2 EXCEPT !.latencies = Append(@, ToMs(data.fields.latency_in_nanos))] IN
    IF "msg_len" \notin DOMAIN data.fields THEN Raise(l3, "KeyError")
    ELSE Continue([l3 EXCEPT !.sizes = Append(@, ToKb(data.fields.msg_len))])

EmptyLists ==
    [frames |-> << >>, object_counts |-> << >>, latencies |-> << >>,
     sizes |-> << >>]

(* The loading loop over a sequence of lines, stopping at the first        *)
(* exception.                                                              *)
RECURSIVE Load(_)
Load(ls) ==
    IF ls = << >> THEN Continue(EmptyLists)
    ELSE LET before == Load(SubSeq(ls, 1, Len(ls) - 1))
         IN  IF before.error # "none" THEN before
             ELSE LoopBody(before.lists, ls[Len(ls)])

(***************************************************************************)
(* The table and its aggregation (lines 27-33).                            *)
(***************************************************************************)
Range(s) == {s[i] : i \in 1..Len(s)}

(* pd.DataFrame of the four lists: row i holds their i-th elements. *)
DataFrame(lists) ==
    [i \in 1..Len(lists.frames) |->
        [Frame |-> lists.frames[i], ObjectCount |-> lists.object_counts[i],
         Latency |-> Exact(lists.latencies[i]), Size |-> Exact(lists.sizes[i])]]

SameLength(lists) ==
    /\ Len(lists.object_counts) = Len(lists.frames)
    /\ Len(lists.latencies) = Len(lists.frames)
    /\ Len(lists.sizes) = Len(lists.frames)

KeyLess(a, b) == a[1] < b[1] \/ (a[1] = b[1] /\ a[2] < b[2])

(* The keys of a group-by in the order pandas emits the groups. *)
RECURSIVE SortedKeys(_)
SortedKeys(keys) ==
    IF keys = {} THEN << >>
    ELSE LET m == CHOOSE k \in keys : \A o \in keys \ {k} : KeyLess(k, o)
         IN  <<m>> \o SortedKeys(keys \ {m})

Column(t, name) == [i \in 1..Len(t) |-> t[i][name]]

(* GroupSum left out: the rows go to the second stage as they are. *)
GroupSumSkipped(t) == t

(* groupby(['Frame', 'Object Count']).sum().reset_index() *)
GroupSum(t) ==
    LET keys == SortedKeys({<<r.Frame, r.ObjectCount>> : r \in Range(t)})
        group(k) == SelectSeq(t, LAMBDA r : r.Frame = k[1] /\ r.ObjectCount = k[2])
    IN  [i \in 1..Len(keys) |->
            [Frame |-> keys[i][1], ObjectCount |-> keys[i][2],
             Latency |-> CellSum(Column(group(keys[i]), "Latency")),
             Size |-> CellSum(Column(group(keys[i]), "Size"))]]

(* drop(columns=['Frame']) *)
DropFrame(t) ==
    [i \in 1..Len(t) |->
        [ObjectCount |-> t[i].ObjectCount, Latency |-> t[i].Latency,
         Size |-> t[i].Size]]

CellMean(cells) == CellDiv(CellSum(cells), Len(cells))

(* GroupMean left out. *)
GroupMeanSkipped(t) == t

(* groupby(['Object Count']).mean().reset_index() *)
GroupMean(t) ==
    LET keys == SortedKeys({<<r.ObjectCount, 0>> : r \in Range(t)})
        group(k) == SelectSeq(t, LAMBDA r : r.ObjectCount = k[1])
    IN  [i \in 1..Len(keys) |->
            [ObjectCount |-> keys[i][1],
             Latency |-> CellMean(Column(group(keys[i]), "Latency")),
             Size |-> CellMean(Column(group(keys[i]), "Size"))]]

(* SortValues with ascending=False. *)
RECURSIVE SortValuesDescending(_)
SortValuesDescending(t) ==
    IF t = << >> THEN << >>
    ELSE LET i == CHOOSE j \in 1..Len(t) :
                      /\ \A k \in 1..Len(t) : t[j].ObjectCount >= t[k].ObjectCount
                      /\ \A k \in 1..(j - 1) : t[k].ObjectCount # t[j].ObjectCount
         IN  <<t[i]>> \o SortValuesDescending(SubSeq(t, 1, i - 1)
                                              \o SubSeq(t, i + 1, Len(t)))

(* sort_values(by='Object Count'): ascending, equal keys in their order. *)
RECURSIVE SortValues(_)
SortValues(t) ==
    IF t = << >> THEN << >>
    ELSE LET i == CHOOSE j \in 1..Len(t) :
                      /\ \A k \in 1..Len(t) : t[j].ObjectCount <= t[k].ObjectCount
                      /\ \A k \in 1..(j - 1) : t[k].ObjectCount # t[j].ObjectCount
         IN  <<t[i]>> \o SortValues(SubSeq(t, 1, i - 1) \o SubSeq(t, i + 1, Len(t)))

Aggregated(t) == SortValues(GroupMean(DropFrame(GroupSum(t))))

(* Polyfit that does not check for an empty x. *)
PolyfitLenient(t) == IF Len(t) <= 1 THEN "rank_deficient" ELSE "full_rank"

(* np.polyfit(x, y, 1) by the number of points: it raises TypeError on an  *)
(* empty x; with one point the least-squares problem is rank deficient,    *)
(* numpy warns (RankWarning) and returns coefficients.                     *)
Polyfit(t) ==
    IF Len(t) = 0 THEN "TypeError"
    ELSE IF Len(t) = 1 THEN "rank_deficient" ELSE "full_rank"

(***************************************************************************)
(* The run.                                                                *)
(***************************************************************************)
VARIABLES
    pc,             \* where the script is
    input_files,    \* the list glob.glob returned
    next_file,      \* the position of the for loop in input_files
    open_files,     \* the files that are open
    opened,         \* the files opened so far, in order
    lines_read,     \* per position of input_files, the lines read from it
    lists,          \* frames, object_counts, latencies, sizes
    df,             \* the table
    z,              \* the outcome of np.polyfit
    shown,          \* fig.show() was called
    written,        \* plot.png was written
    error           \* the uncaught exception that ended the run

vars == <<pc, input_files, next_file, open_files, opened, lines_read, lists,
          df, z, shown, written, error>>

Flatten(ll) == LET RECURSIVE F(_)
                   F(k) == IF k = 0 THEN << >> ELSE F(k - 1) \o ll[k]
               IN  F(Len(ll))

AllRead == Flatten(lines_read)

(* Lines 9-14: the lists are empty and the directory has been listed. *)
Init ==
    /\ pc = "loop"
    /\ input_files \in {[i \in 1..n |-> i] : n \in 0..MaxFiles}
    /\ next_file = 1
    /\ open_files = {}
    /\ opened = << >>
    /\ lines_read = [i \in 1..Len(input_files) |-> << >>]
    /\ lists = EmptyLists
    /\ df = << >>
    /\ z = "none"
    /\ shown = FALSE
    /\ written = FALSE
    /\ error = "none"

(* Lines 16-17: the next file of the list is opened. *)
OpenFile ==
    /\ pc = "loop"
    /\ next_file <= Len(input_files)
    /\ open_files' = open_files \cup {input_files[next_file]}
    /\ opened' = Append(opened, input_files[next_file])
    /\ next_file' = next_file + 1
    /\ pc' = "reading"
    /\ UNCHANGED <<input_files, lines_read, lists, df, z, shown, written, error>>

(* ExitWith that leaves the file open. *)
ExitWithLeak(files, f) == files

(* What leaving the with block does to the open files. *)
ExitWith(files, f) == files \ {f}

(* Lines 18-25: one more line of the open file goes through the loop body; *)
(* an exception leaves the with block, which closes the file, and ends the *)
(* run.                                                                    *)
ReadLine ==
    /\ pc = "reading"
    /\ Len(AllRead) < MaxLines
    /\ \E line \in Lines :
         LET after == LoopBody(lists, line)
             cur   == next_file - 1
         IN  /\ lines_read' = [lines_read EXCEPT ![cur] = Append(@, line)]
             /\ lists' = after.lists
             /\ error' = after.error
             /\ pc' = IF after.error = "none" THEN "reading" ELSE "failed"
             /\ open_files' = IF after.error = "none" THEN open_files
                              ELSE ExitWith(open_files, input_files[cur])
    /\ UNCHANGED <<input_files, next_file, opened, df, z, shown, written>>

(* Line 18 at the end of the file: the with block is left. *)
CloseFile ==
    /\ pc = "reading"
    /\ open_files' = ExitWith(open_files, input_files[next_file - 1])
    /\ pc' = "loop"
    /\ UNCHANGED <<input_files, next_file, opened, lines_read, lists, df, z,
                   shown, written, error>>

(* Lines 27-33, after the last file: the table is built and aggregated.   *)
(* DataFrame raises ValueError when the lists differ in length.           *)
Aggregate ==
    /\ pc = "loop"
    /\ next_file > Len(input_files)
    /\ IF SameLength(lists)
       THEN /\ df' = Aggregated(DataFrame(lists))
            /\ pc' = "fit"
            /\ error' = error
       ELSE /\ df' = df
            /\ pc' = "failed"
            /\ error' = "ValueError"
    /\ UNCHANGED <<input_files, next_file, open_files, opened, lines_read,
                   lists, z, shown, written>>

(* Line 35. *)
Fit ==
    /\ pc = "fit"
    /\ LET res == Polyfit(df)
       IN  IF res = "TypeError"
           THEN /\ pc' = "failed"
                /\ error' = "TypeError"
                /\ z' = z
           ELSE /\ pc' = "plot"
                /\ error' = error
                /\ z' = res
    /\ UNCHANGED <<input_files, next_file, open_files, opened, lines_read,
                   lists, df, shown, written>>

(* Lines 37-79: the figure is built and shown. *)
Show ==
    /\ pc = "plot"
    /\ shown' = TRUE
    /\ pc' = "export"
    /\ UNCHANGED <<input_files, next_file, open_files, opened, lines_read,
                   lists, df, z, written, error>>

(* Line 82: plot.png is written. *)
WriteImage ==
    /\ pc = "export"
    /\ written' = TRUE
    /\ pc' = "done"
    /\ UNCHANGED <<input_files, next_file, open_files, opened, lines_read,
                   lists, df, z, shown, error>>

Next == OpenFile \/ ReadLine \/ CloseFile \/ Aggregate \/ Fit \/ Show \/ WriteImage

Spec == Init /\ [][Next]_vars

(***************************************************************************)
(* Vocabulary of the properties.                                           *)
(***************************************************************************)
TableBuilt ==
    pc \in {"fit", "plot", "export", "done"} \/ (pc = "failed" /\ error = "TypeError")

(* The state that line 33 leaves.  df is assigned there and nowhere else,   *)
(* and the lists and the lines read are not assigned after the loop, so    *)
(* the table and the input it was built from are those of this state in    *)
(* every later one.                                                        *)
JustBuilt == pc = "fit"

HasFields(line) == line.json /\ "fields" \in DOMAIN line.data

HasLatency(line) ==
    HasFields(line) /\ "latency_in_nanos" \in DOMAIN line.data.fields

(* A JSON object that lacks one of the keys the record format requires. *)
MissingRequired(line) ==
    /\ line.json
    /\ \/ "span" \notin DOMAIN line.data
       \/ "fields" \notin DOMAIN line.data
       \/ "frame_count" \notin DOMAIN line.data.span
       \/ "object_count" \notin DOMAIN line.data.span
       \/ "msg_len" \notin DOMAIN line.data.fields

(* A JSON object on which the loop body raises KeyError. *)
RaisesKeyError(line) ==
    /\ line.json
    /\ \/ ~HasFields(line)
       \/ /\ HasLatency(line)
          /\ \/ "span" \notin DOMAIN line.data
             \/ "frame_count" \notin DOMAIN line.data.span
             \/ "object_count" \notin DOMAIN line.data.span
             \/ "msg_len" \notin DOMAIN line.data.fields

WellFormedSoFar == \A i \in 1..Len(AllRead) : AllRead[i] \in WellFormedLines

Kept == SelectSeq(AllRead, HasLatency)

NoOutput == z = "none" /\ ~shown /\ ~written

Perms(n) == {p \in [1..n -> 1..n] : \A i, j \in 1..n : p[i] = p[j] => i = j}

Rows == 1..Len(lists.object_counts)

RowsOf(c) == {i \in Rows : lists.object_counts[i] = c}

FramesOf(c) == {lists.frames[i] : i \in RowsOf(c)}

RECURSIVE SumOver(_, _)
SumOver(S, col) ==
    IF S = {} THEN CellZero
    ELSE LET i == CHOOSE j \in S : TRUE
         IN  CellAdd(SumOver(S \ {i}, col), Exact(col[i]))

(* The sum over the frames of c of the per-frame sums of column col. *)
RECURSIVE SumOfFrameSums(_, _, _)
SumOfFrameSums(F, c, col) ==
    IF F = {} THEN CellZero
    ELSE LET f == CHOOSE g \in F : TRUE
         IN  CellAdd(SumOfFrameSums(F \ {f}, c, col),
                     SumOver({i \in RowsOf(c) : lists.frames[i] = f}, col))

RowFor(c) == CHOOSE i \in 1..Len(df) : df[i].ObjectCount = c

OneRowPerCount(t) ==
    \A i, j \in 1..Len(t) : t[i].ObjectCount = t[j].ObjectCount => i = j

Ascending(t) ==
    \A i, j \in 1..Len(t) : i < j => t[i].ObjectCount < t[j].ObjectCount

WithFrames(t, fr) ==
    [i \in 1..Len(t) |->
        [Frame |-> fr[i], ObjectCount |-> t[i].ObjectCount,
         Latency |-> t[i].Latency, Size |-> t[i].Size]]

(***************************************************************************)
(* C1.  On well-formed lines a record is in the extracted table exactly    *)
(* when it has fields.latency_in_nanos: the rows of the four lists are the *)
(* lines with that key, in order; a line without it raises nothing, and    *)
(* the aggregated table is the one computed from the input with those      *)
(* lines removed.                                                          *)
(***************************************************************************)
C1_KeptIffLatency ==
    WellFormedSoFar =>
        /\ error \notin {"JSONDecodeError", "KeyError", "ValueError"}
        /\ lists.frames = [i \in 1..Len(Kept) |-> Kept[i].data.span.frame_count]
        /\ lists.object_counts =
               [i \in 1..Len(Kept) |-> Kept[i].data.span.object_count]
        /\ Len(lists.latencies) = Len(Kept)
        /\ Len(lists.sizes) = Len(Kept)
        /\ JustBuilt => df = Aggregated(DataFrame(Load(Kept).lists))

C1_Witness ==
    /\ JustBuilt
    /\ WellFormedSoFar
    /\ Len(AllRead) = 3
    /\ ~HasLatency(AllRead[2])
    /\ Len(df) = 2

(***************************************************************************)
(* C2.  For every object_count c of the kept records, the aggregated row   *)
(* of c holds, for the latency and for the size, the mean over the         *)
(* distinct frames of c of the per-frame sums, which is the total of the   *)
(* values of c divided by the number of its distinct frames.               *)
(***************************************************************************)
C2_MeanOfFrameSums ==
    JustBuilt =>
        \A c \in Range(lists.object_counts) :
            /\ \E i \in 1..Len(df) : df[i].ObjectCount = c
            /\ df[RowFor(c)].Latency =
                   CellDiv(SumOfFrameSums(FramesOf(c), c, lists.latencies),
                           Cardinality(FramesOf(c)))
            /\ df[RowFor(c)].Latency =
                   CellDiv(SumOver(RowsOf(c), lists.latencies),
                           Cardinality(FramesOf(c)))
            /\ df[RowFor(c)].Size =
                   CellDiv(SumOfFrameSums(FramesOf(c), c, lists.sizes),
                           Cardinality(FramesOf(c)))
            /\ df[RowFor(c)].Size =
                   CellDiv(SumOver(RowsOf(c), lists.sizes),
                           Cardinality(FramesOf(c)))

C2_Witness ==
    /\ JustBuilt
    /\ Cardinality(RowsOf(10)) = 3
    /\ Cardinality(FramesOf(10)) = 2
    /\ lists.latencies[1] # lists.latencies[2]
    /\ lists.frames[1] = lists.frames[2]

(***************************************************************************)
(* C3.  The aggregated table has one row for each object_count of the kept *)
(* records and no other row, and its rows are in strictly ascending        *)
(* object_count order.                                                     *)
(***************************************************************************)
C3_UniqueAscending ==
    TableBuilt =>
        /\ {df[i].ObjectCount : i \in 1..Len(df)} = Range(lists.object_counts)
        /\ Ascending(df)

C3_Witness ==
    /\ pc = "done"
    /\ lists.object_counts = <<10, 5, 10>>
    /\ lists.frames = <<1, 1, 2>>
    /\ Len(df) = 2

(***************************************************************************)
(* C4.  Each complete row of the lists carries its record's frame_count    *)
(* and object_count and the two converted values, and the lists have one   *)
(* row per kept record when the table is built.  RowsCarry takes the test  *)
(* that relates a stored latency to the record's latency_in_nanos.         *)
(***************************************************************************)
RowsCarry(LatencyOk(_, _)) ==
    /\ Len(lists.sizes) <= Len(Kept)
    /\ \A i \in 1..Len(lists.sizes) :
          /\ lists.frames[i] = Kept[i].data.span.frame_count
          /\ lists.object_counts[i] = Kept[i].data.span.object_count
          /\ LatencyOk(lists.latencies[i], Kept[i].data.fields.latency_in_nanos)
          /\ FloatMul(lists.sizes[i], BytesPerKilo)
                 = FloatOfInt(Kept[i].data.fields.msg_len)
    /\ TableBuilt => SameLength(lists) /\ Len(lists.frames) = Len(Kept)

ExactBack(ms, nanos) == FloatMul(ms, NanosPerMilli) = FloatOfInt(nanos)

NearestBack(ms, nanos) == NearestInt(FloatMul(ms, NanosPerMilli)) = nanos

(* C4 as stated: multiplying the stored latency by 1,000,000 gives the     *)
(* original latency_in_nanos exactly.                                      *)
C4_ExactRoundTrip == RowsCarry(ExactBack)

(* C4 amended: each row carries its record's frame_count and object_count; *)
(* size_kb times 1024 is msg_len exactly; latency_ms is the float nearest  *)
(* latency_in_nanos / 1,000,000, and multiplying it back gives             *)
(* latency_in_nanos after rounding to the nearest integer; the four lists  *)
(* have equal length, one row per kept record, when the table is built.    *)
C4_RowsCarryRecord == RowsCarry(NearestBack)

C4_Witness ==
    /\ pc = "done"
    /\ Len(lists.sizes) = 2
    /\ ~ExactBack(lists.latencies[1], Kept[1].data.fields.latency_in_nanos)
    /\ ExactBack(lists.latencies[2], Kept[2].data.fields.latency_in_nanos)

(***************************************************************************)
(* C5.  A line that is not JSON is the last line read: the run has failed  *)
(* there with the decode error, the open file was closed, no table was     *)
(* built, no fit made, nothing shown or written, and no step follows.      *)
(***************************************************************************)
C5_MalformedAborts ==
    \A i \in 1..Len(AllRead) :
        ~AllRead[i].json =>
            /\ i = Len(AllRead)
            /\ pc = "failed"
            /\ error = "JSONDecodeError"
            /\ ~TableBuilt
            /\ df = << >>
            /\ NoOutput
            /\ ~ENABLED Next

C5_Witness ==
    /\ pc = "failed"
    /\ error = "JSONDecodeError"
    /\ Len(opened) = 2
    /\ Len(lines_read[1]) = 2
    /\ Len(lists.sizes) = 1

(***************************************************************************)
(* C6 as stated: a JSON object that lacks span, span.frame_count,          *)
(* span.object_count, fields or fields.msg_len makes the run fail with no  *)
(* chart and no plot.png; it is never skipped.                             *)
(***************************************************************************)
C6_MissingKeyAborts ==
    \A i \in 1..Len(AllRead) :
        MissingRequired(AllRead[i]) =>
            /\ i = Len(AllRead)
            /\ pc = "failed"
            /\ error = "KeyError"
            /\ ~TableBuilt
            /\ NoOutput

(* C6 amended: a JSON object that lacks fields, or that has                *)
(* fields.latency_in_nanos and lacks span, span.frame_count,               *)
(* span.object_count or fields.msg_len, makes the run fail there with      *)
(* KeyError, no table, no chart and no plot.png; an object with fields and *)
(* without latency_in_nanos is skipped without error whatever else it      *)
(* lacks.                                                                  *)
C6_LookedUpKeyAborts ==
    \A i \in 1..Len(AllRead) :
        /\ RaisesKeyError(AllRead[i]) =>
              /\ i = Len(AllRead)
              /\ pc = "failed"
              /\ error = "KeyError"
              /\ ~TableBuilt
              /\ df = << >>
              /\ NoOutput
        /\ (HasFields(AllRead[i]) /\ ~HasLatency(AllRead[i])) =>
              (i = Len(AllRead) => error \notin {"KeyError", "JSONDecodeError"})

C6_Witness ==
    /\ pc = "failed"
    /\ error = "KeyError"
    /\ Len(AllRead) = 3
    /\ AllRead[1] = NoLatencyNoSpan
    /\ AllRead[3] = NoMsgLen
    /\ Len(lists.frames) = 2
    /\ Len(lists.sizes) = 1

(***************************************************************************)
(* C7 as stated: with fewer than two rows in the aggregated table the run  *)
(* fails at the fit and shows and writes nothing.                          *)
(***************************************************************************)
C7_FewRowsFail ==
    (TableBuilt /\ Len(df) < 2) =>
        /\ pc \in {"fit", "failed"}
        /\ NoOutput

(* C7 amended: with no row in the aggregated table the run fails at the    *)
(* fit with TypeError and shows and writes nothing; with exactly one row   *)
(* (of a non-zero object_count) polyfit raises nothing, the fit is rank    *)
(* deficient and the run goes on.                                          *)
C7_EmptyTableFails ==
    /\ (TableBuilt /\ Len(df) = 0) =>
          /\ pc \in {"fit", "failed"}
          /\ pc = "failed" => error = "TypeError"
          /\ NoOutput
    /\ (TableBuilt /\ Len(df) = 1 /\ df[1].ObjectCount # 0 /\ pc # "fit") =>
          /\ pc \in {"plot", "export", "done"}
          /\ z = "rank_deficient"
          /\ error = "none"

C7_Witness ==
    /\ pc = "failed"
    /\ error = "TypeError"
    /\ Len(AllRead) = 2
    /\ Len(opened) = 2

(***************************************************************************)
(* C8.  The aggregated table is the same for every order of the input      *)
(* files and for every order of the kept records.                          *)
(***************************************************************************)
C8_OrderIndependent ==
    JustBuilt =>
        /\ \A p \in Perms(Len(input_files)) :
              Aggregated(DataFrame(Load(Flatten(
                  [i \in 1..Len(input_files) |-> lines_read[p[i]]])).lists)) = df
        /\ \A q \in Perms(Len(lists.frames)) :
              Aggregated([i \in 1..Len(lists.frames) |-> DataFrame(lists)[q[i]]]) = df

C8_Witness ==
    /\ JustBuilt
    /\ Len(input_files) = 2
    /\ Len(lines_read[1]) = 2
    /\ Len(lines_read[2]) = 1
    /\ lists.frames = <<1, 1, 2>>
    /\ lists.object_counts = <<10, 10, 10>>
    /\ lists.latencies[1] # lists.latencies[2]

(***************************************************************************)
(* C9.  At most one file is open, and only while its lines are read; the   *)
(* files are opened in the order of the list, each at most once, a file    *)
(* only after the one before it was closed; no line is read from a file    *)
(* not yet opened; no file is open after a failure or once the table is    *)
(* built.                                                                  *)
(***************************************************************************)
C9_OneFileOpen ==
    /\ Cardinality(open_files) <= 1
    /\ pc = "reading" <=> open_files # {}
    /\ open_files # {} => open_files = {input_files[next_file - 1]}
    /\ opened = SubSeq(input_files, 1, next_file - 1)
    /\ \A i, j \in 1..Len(opened) : opened[i] = opened[j] => i = j
    /\ \A i \in 1..Len(input_files) : i > Len(opened) => lines_read[i] = << >>
    /\ pc = "failed" => open_files = {}
    /\ TableBuilt => open_files = {} /\ Len(opened) = Len(input_files)

C9_Witness ==
    /\ pc = "failed"
    /\ error = "KeyError"
    /\ Len(opened) = 2
    /\ Len(lines_read[1]) = 1
    /\ Len(lines_read[2]) = 2
    /\ open_files = {}

(***************************************************************************)
(* C10 as stated: aggregating a table that has exactly one row per         *)
(* object_count returns that table, rows in the same order.                *)
(***************************************************************************)
C10_OneRowPerCountFixed ==
    (JustBuilt /\ OneRowPerCount(DataFrame(lists))) =>
        df = DropFrame(DataFrame(lists))

(* C10 amended: aggregating a table that has exactly one row per           *)
(* object_count, in ascending object_count order, returns that table; so   *)
(* aggregating an aggregated table again, under any frame labels, returns  *)
(* it unchanged.                                                           *)
C10_Idempotent ==
    JustBuilt =>
        /\ (OneRowPerCount(DataFrame(lists)) /\ Ascending(DataFrame(lists))) =>
               df = DropFrame(DataFrame(lists))
        /\ \A fr \in [1..Len(df) -> FrameIds] : Aggregated(WithFrames(df, fr)) = df

C10_Witness ==
    /\ JustBuilt
    /\ lists.object_counts = <<5, 10>>
    /\ Len(df) = 2
    /\ df = DropFrame(DataFrame(lists))

=============================================================================
